---- MODULE Spec2Model ----
(***************************************************************************)
(* The notification subsystem of jevi-chat: the notifications collection,  *)
(* the handlers of handlers/notifications.go that read and write it, the   *)
(* notification part of config.CleanupExpiredData and the notification     *)
(* configuration of config/notifications.go.                               *)
(*                                                                         *)
(* Time is counted in units of 24 hours.  ObjectIDs are natural numbers,   *)
(* NilObjectID is 0.  A document field left out by `omitempty` is Absent.  *)
(***************************************************************************)
EXTENDS Integers, Sequences, FiniteSets, TLC

VARIABLES
    NotificationSettings,  \* config.NotificationSettings (nil or the loaded settings)
    store,                 \* the documents of the "notifications" collection
    nextId,                \* number of ObjectIDs the driver has generated so far
    now,                   \* the wall clock, time.Now()
    webhooks,              \* sendWebhookNotification goroutines started, not finished
    resp,                  \* the answer of the call in progress (and its request)
    reaper,                \* where the goroutine startNotificationCleanup stands
    ticker,                \* its time.Ticker: interval, next firing, ticks in ticker.C
    runs                   \* the DeleteMany of each cleanup under way, step by step

vars ==
    <<NotificationSettings, store, nextId, now, webhooks, resp, reaper, ticker,
      runs>>

-----------------------------------------------------------------------------
(* Bounds of the model *)

MaxNow == 2        \* the clock stops advancing here
MaxStore == 2      \* InsertOne is called at most this many times
MaxPage == 52      \* largest collection the paging specification starts from

-----------------------------------------------------------------------------
(* Program constants *)

Hours24 == 1           \* 24 * time.Hour, the fallback expiry
GeneralLimit == 50     \* SetLimit(50) of GetNotifications
ProjectLimit == 20     \* SetLimit(20) of GetProjectNotifications
NilObjectID == 0       \* primitive.NilObjectID
Absent == -1           \* a field dropped by `bson:",omitempty"`

NotificationTypeLimitExpired == "limit_expired"
NotificationTypeInfo == "info"

StatusOK == "200"
StatusBadRequest == "400"
StatusNotFound == "404"
StatusInternalServerError == "500"

-----------------------------------------------------------------------------
(* ObjectID.Hex and primitive.ObjectIDFromHex.  The decimal string of an   *)
(* ObjectID stands for its 24 hex digits; any other string, the empty one  *)
(* included, is not an ObjectID and decoding it is an error.               *)

Hex(id) == ToString(id)

OidRange == 0..(MaxStore + 1)

ObjectIDFromHex(s) ==
    IF \E id \in OidRange : Hex(id) = s
    THEN [err |-> FALSE, id |-> CHOOSE id \in OidRange : Hex(id) = s]
    ELSE [err |-> TRUE, id |-> NilObjectID]

(* time.ParseDuration on the strings the environment is given in the model *)
DurationTable ==
    [s \in {"0s", "-24h", "24h", "1440h"} |->
        CASE s = "0s" -> 0
          [] s = "-24h" -> 0 - Hours24
          [] s = "24h" -> Hours24
          [] s = "1440h" -> 60 * Hours24]

ParseDuration(s) ==
    IF s \in DOMAIN DurationTable
    THEN [err |-> FALSE, d |-> DurationTable[s]]
    ELSE [err |-> TRUE, d |-> 0]

parseDuration(value, defaultValue) ==
    LET v == IF value = "" THEN defaultValue ELSE value
        p == ParseDuration(v)
    IN IF p.err THEN ParseDuration(defaultValue).d ELSE p.d

(* Values of NOTIFICATION_DEFAULT_EXPIRY: those that leave the default of  *)
(* 24 hours in force, and all the model covers.                            *)
DefaultEnv == {"", "junk", "24h"}
DurationEnv == DefaultEnv \cup {"0s", "-24h"}

(* strconv.ParseBool *)
ParseBool(s) ==
    IF s \in {"1", "t", "T", "TRUE", "true", "True"}
    THEN [err |-> FALSE, b |-> TRUE]
    ELSE IF s \in {"0", "f", "F", "FALSE", "false", "False"}
    THEN [err |-> FALSE, b |-> FALSE]
    ELSE [err |-> TRUE, b |-> FALSE]

parseBool(value, defaultValue) ==
    IF value = "" \/ ParseBool(value).err THEN defaultValue ELSE ParseBool(value).b

(* config.NotificationSettings before InitNotificationConfig: nil *)
NilSettings ==
    [present |-> FALSE, CleanupInterval |-> 0, DefaultExpiry |-> 0,
     EnableCleanup |-> FALSE, SlackWebhookURL |-> ""]

InitNotificationConfig(intervalEnv, expiryEnv, enableEnv, slackEnv) ==
    [present |-> TRUE,
     CleanupInterval |-> parseDuration(intervalEnv, "24h"),
     DefaultExpiry |-> parseDuration(expiryEnv, "24h"),
     EnableCleanup |-> parseBool(enableEnv, TRUE),
     SlackWebhookURL |-> slackEnv]

-----------------------------------------------------------------------------
(* The notifications collection *)

(* bson.Marshal of models.Notification: project_id and user_id carry       *)
(* `omitempty`, and a zero ObjectID is empty, so it is left out.           *)
omitempty(id) == IF id = NilObjectID THEN Absent ELSE id

ToDocument(oid, n) ==
    [_id        |-> oid,
     project_id |-> omitempty(n.ProjectID),
     user_id    |-> omitempty(n.UserID),
     type       |-> n.Type,
     message    |-> n.Message,
     is_read    |-> n.IsRead,
     created_at |-> n.CreatedAt,
     expires_at |-> n.ExpiresAt]

(* A bson.M filter: a conjunction.  Each key holds the set of values it    *)
(* constrains the field to equal ({} = the key is not in the filter);      *)
(* expires_gt and expires_lt hold the bound of a $gt / $lt comparison.     *)
NoFilter ==
    [_id |-> {}, project_id |-> {}, user_id |-> {}, type |-> {},
     is_read |-> {}, expires_gt |-> {}, expires_lt |-> {}]

(* Mutant: $gt and $lt compare as $gte and $lte *)
MatchesInclusive(doc, filter) ==
    /\ filter._id = {} \/ doc._id \in filter._id
    /\ filter.project_id = {} \/ doc.project_id \in filter.project_id
    /\ filter.user_id = {} \/ doc.user_id \in filter.user_id
    /\ filter.type = {} \/ doc.type \in filter.type
    /\ filter.is_read = {} \/ doc.is_read \in filter.is_read
    /\ \A t \in filter.expires_gt : doc.expires_at >= t
    /\ \A t \in filter.expires_lt : doc.expires_at =< t

Matches(doc, filter) ==
    /\ filter._id = {} \/ doc._id \in filter._id
    /\ filter.project_id = {} \/ doc.project_id \in filter.project_id
    /\ filter.user_id = {} \/ doc.user_id \in filter.user_id
    /\ filter.type = {} \/ doc.type \in filter.type
    /\ filter.is_read = {} \/ doc.is_read \in filter.is_read
    /\ \A t \in filter.expires_gt : doc.expires_at > t
    /\ \A t \in filter.expires_lt : doc.expires_at < t

Matching(filter) == {doc \in store : Matches(doc, filter)}

Min(a, b) == IF a < b THEN a ELSE b

(* Mutant: the sort runs ascending, oldest first *)
Oldest(S) == {d \in S : \A e \in S : e.created_at >= d.created_at}

(* The documents of S that sort first by created_at descending.  The order *)
(* of documents with equal created_at is not defined by the store.         *)
Newest(S) == {d \in S : \A e \in S : e.created_at <= d.created_at}

(* collection.Find(filter, SetSort(created_at, -1).SetLimit(limit)) and    *)
(* cursor.All: every sequence the store may answer with.                   *)
RECURSIVE SortedLimit(_, _)
SortedLimit(S, limit) ==
    IF limit = 0 \/ S = {}
    THEN {<<>>}
    ELSE UNION {{<<d>> \o rest : rest \in SortedLimit(S \ {d}, limit - 1)} :
                d \in Newest(S)}

(* Mutant: the limit is not applied *)
FindUnlimited(filter, limit) == SortedLimit(Matching(filter), Cardinality(store))

(* Mutant: the answer comes from a copy taken when the records were created *)
FindAsCreated(filter, limit) ==
    {[i \in 1..Len(r) |-> [r[i] EXCEPT !.is_read = FALSE]] :
        r \in SortedLimit(Matching(filter), limit)}

Find(filter, limit) == SortedLimit(Matching(filter), limit)

CountDocuments(filter) == Cardinality(Matching(filter))

(* Mutant: the update flips is_read instead of setting it *)
ToggleIsRead(doc) == [doc EXCEPT !.is_read = ~doc.is_read]

(* Mutant: the update runs with upsert, and inserts when nothing matches *)
UpsertSetRead(filter) ==
    IF Matching(filter) = {} /\ filter._id # {}
    THEN store \cup
           {[_id |-> CHOOSE i \in filter._id : TRUE, project_id |-> Absent,
             user_id |-> Absent, type |-> "", message |-> "", is_read |-> TRUE,
             created_at |-> 0, expires_at |-> 0]}
    ELSE {IF Matches(doc, filter) THEN [doc EXCEPT !.is_read = TRUE] ELSE doc :
            doc \in store}

(* Mutant: the update also prolongs the notification *)
SetIsReadAndExtend(doc) ==
    [doc EXCEPT !.is_read = TRUE, !.expires_at = @ + Hours24]

(* UpdateMany / UpdateOne with {"$set": {"is_read": true}} *)
SetIsRead(doc) == [doc EXCEPT !.is_read = TRUE]

UpdateSetRead(filter) ==
    {IF Matches(doc, filter) THEN SetIsRead(doc) ELSE doc : doc \in store}

(* Mutant: the documents in scope are counted, read or not *)
MatchedInScope(filter) == CountDocuments([filter EXCEPT !.is_read = {}])

ModifiedCount(filter) ==
    Cardinality({doc \in Matching(filter) : ~doc.is_read})

(* Mutant: only one of the matching documents is deleted *)
DeleteOneMatching(filter) ==
    IF Matching(filter) = {}
    THEN store
    ELSE store \ {CHOOSE doc \in Matching(filter) : TRUE}

(* DeleteMany / DeleteOne (_id is unique, so DeleteOne by _id is DeleteMany) *)
DeleteMatching(filter) == {doc \in store : ~Matches(doc, filter)}

-----------------------------------------------------------------------------
(* Inputs of the handlers *)

(* No time.Ticker has been created *)
NoTicker == [interval |-> 0, next |-> 0, C |-> 0]

(* resp between two calls: no call is being answered *)
NoResponse == [op |-> "none"]

Idle == resp = NoResponse

(* gin context: c.GetBool("is_admin"), c.GetString("user_id") *)
Callers ==
    {[is_admin |-> TRUE,  user_id |-> ""],
     [is_admin |-> FALSE, user_id |-> ""],
     [is_admin |-> FALSE, user_id |-> "1"],
     [is_admin |-> FALSE, user_id |-> "zz"]}

(* The context keys are not set: GetBool gives false, GetString gives "" *)
NoIdentity == {[is_admin |-> FALSE, user_id |-> ""]}

TypeQueries == {"", NotificationTypeInfo}          \* c.Query("type")
ProjectQueries == {"", "1", "zz"}                  \* c.Query("project_id")
NoQuery == {""}                                    \* the query parameter is not given
ProjectParams == {"1", "2", "zz"}                  \* c.Param("id") of a project
IdParams == {"zz"} \cup {Hex(id) : id \in 1..MaxStore}   \* c.Param("id")

Projects == {1}                   \* projectID arguments of CreateNotification
LimitProjects == {2}              \* projects that reach their usage limit
Owners == {1, 2}                  \* userID arguments of CreateNotification
SameInstant == {0}                \* two time.Now() reads within one unit of the clock
ClockSkew == {0, 1}               \* clock advance between two time.Now() reads

-----------------------------------------------------------------------------
(* CreateNotification *)

(* Mutant: the configured expiry is not read *)
ExpiryTimeAlwaysDefault(t) == t + Hours24

ExpiryTime(t) ==
    IF NotificationSettings.present
    THEN t + NotificationSettings.DefaultExpiry
    ELSE t + Hours24

(* Mutant: the notification is created read *)
NewNotificationRead(projectID, userID, type, message, tExpiry, tCreated) ==
    [ProjectID |-> projectID, UserID |-> userID, Type |-> type,
     Message |-> message, IsRead |-> TRUE, CreatedAt |-> tCreated,
     ExpiresAt |-> tExpiry + Hours24]

NewNotification(projectID, userID, type, message, tExpiry, tCreated) ==
    [ProjectID |-> projectID,
     UserID    |-> userID,
     Type      |-> type,
     Message   |-> message,
     IsRead    |-> FALSE,
     CreatedAt |-> tCreated,
     ExpiresAt |-> ExpiryTime(tExpiry)]

(* The body of CreateNotification: the clock is read for the expiry and,   *)
(* skew later, for CreatedAt; InsertOne stores the document or fails.      *)
DoCreate(projectID, userID, type, message, skew, insertOk) ==
    /\ now + skew <= MaxNow
    /\ insertOk => nextId < MaxStore
    /\ now' = now + skew
    /\ IF insertOk
       THEN /\ nextId' = nextId + 1
            /\ store' = store \cup
                 {ToDocument(nextId + 1,
                     NewNotification(projectID, userID, type, message,
                                     now, now + skew))}
       ELSE UNCHANGED <<store, nextId>>

CreateNotificationCall(skews) ==
    /\ Idle
    /\ \E projectID \in Projects, userID \in Owners,
          skew \in skews, insertOk \in BOOLEAN :
        /\ DoCreate(projectID, userID, NotificationTypeInfo, "m", skew, insertOk)
        /\ resp' = [op |-> "CreateNotification", err |-> ~insertOk]
        /\ UNCHANGED <<runs, reaper, ticker, NotificationSettings, webhooks>>

(* CreateLimitExpiredNotification: a system notification (NilObjectID as   *)
(* the user) of type limit_expired; when it is stored, the webhook is sent *)
(* by a goroutine of its own.                                              *)
(* Mutant: the early return on the error of CreateNotification is missing *)
WebhooksStartedAlways(insertOk) == webhooks + 1

(* `if err != nil { ...; return }` comes before `go sendWebhookNotification` *)
WebhooksStarted(insertOk) == IF insertOk THEN webhooks + 1 ELSE webhooks

CreateLimitExpiredNotificationCall(skews) ==
    /\ Idle
    /\ \E projectID \in LimitProjects, skew \in skews, insertOk \in BOOLEAN :
        /\ DoCreate(projectID, NilObjectID, NotificationTypeLimitExpired,
                    "Your limit has expired.", skew, insertOk)
        /\ webhooks' = WebhooksStarted(insertOk)
        /\ resp' = [op |-> "CreateLimitExpiredNotification", err |-> ~insertOk]
        /\ UNCHANGED <<runs, reaper, ticker, NotificationSettings>>

CreateNotification == CreateNotificationCall(SameInstant)

CreateLimitExpiredNotification == CreateLimitExpiredNotificationCall(SameInstant)

(* Mutant: a dispatch that has not gone through is started again *)
sendWebhookNotificationRetried ==
    /\ Idle
    /\ webhooks > 0
    /\ webhooks' = webhooks + 1
    /\ UNCHANGED <<runs, reaper, ticker, NotificationSettings, store, nextId, now, resp>>

(* sendWebhookNotification: nothing is sent without a webhook URL, and the *)
(* sending itself is a placeholder; either way the goroutine ends.         *)
sendWebhookNotification ==
    /\ Idle
    /\ webhooks > 0
    /\ webhooks' = webhooks - 1
    /\ UNCHANGED <<runs, reaper, ticker, NotificationSettings, store, nextId, now, resp>>

-----------------------------------------------------------------------------
(* GetNotifications *)

(* Mutant: the owner is never put into the filter *)
OwnerConstraintNever(isAdmin, userID) == [err |-> FALSE, user_id |-> {}]

(* "Regular users only see their notifications" *)
OwnerConstraint(isAdmin, userID) ==
    IF ~isAdmin /\ userID # ""
    THEN LET p == ObjectIDFromHex(userID)
         IN [err |-> p.err, user_id |-> IF p.err THEN {} ELSE {p.id}]
    ELSE [err |-> FALSE, user_id |-> {}]

TypeConstraint(notificationType) ==
    IF notificationType # "" THEN {notificationType} ELSE {}

ProjectConstraint(projectID) ==
    IF projectID # "" /\ ~ObjectIDFromHex(projectID).err
    THEN {ObjectIDFromHex(projectID).id}
    ELSE {}

(* Mutant: $gte in place of $gt *)
ActiveAtOrEqual(t) == {t - 1}

ActiveAt(t) == {t}     \* "expires_at": {"$gt": time.Now()}

GetNotificationsFilter(t, isAdmin, userID, notificationType, projectID) ==
    [NoFilter EXCEPT
        !.expires_gt = ActiveAt(t),
        !.user_id = OwnerConstraint(isAdmin, userID).user_id,
        !.type = TypeConstraint(notificationType),
        !.project_id = ProjectConstraint(projectID)]

Unread(filter) == [filter EXCEPT !.is_read = {FALSE}]

ListResponse(op, caller, type, projectID, t, status, notifications, unread) ==
    [op |-> op, is_admin |-> caller.is_admin, user_id |-> caller.user_id,
     type |-> type, project_id |-> projectID, t |-> t, status |-> status,
     notifications |-> notifications, count |-> Len(notifications),
     unread_count |-> unread]

GetNotificationsCall(types, projectIDs) ==
    /\ Idle
    /\ \E caller \in Callers, type \in types, projectID \in projectIDs,
          findOk \in BOOLEAN, countOk \in BOOLEAN :
        LET filter == GetNotificationsFilter(now, caller.is_admin,
                          caller.user_id, type, projectID)
            unread == IF countOk THEN CountDocuments(Unread(filter)) ELSE 0
            answer(status, notifications, n) ==
                ListResponse("GetNotifications", caller, type, projectID,
                             now, status, notifications, n)
        IN /\ IF OwnerConstraint(caller.is_admin, caller.user_id).err
              THEN resp' = answer(StatusBadRequest, <<>>, 0)
              ELSE IF ~findOk
              THEN resp' = answer(StatusInternalServerError, <<>>, 0)
              ELSE \E notifications \in Find(filter, GeneralLimit) :
                      resp' = answer(StatusOK, notifications, unread)
           /\ UNCHANGED <<runs, reaper, ticker, NotificationSettings, store, nextId, now, webhooks>>

GetNotifications == GetNotificationsCall(TypeQueries, NoQuery)

-----------------------------------------------------------------------------
(* GetProjectNotifications: the handler reads no caller identity *)

GetProjectNotificationsFilter(t, objID) ==
    [NoFilter EXCEPT !.project_id = {objID}, !.expires_gt = ActiveAt(t)]

GetProjectNotifications ==
    /\ Idle
    /\ \E projectID \in ProjectParams, findOk \in BOOLEAN :
        LET p == ObjectIDFromHex(projectID)
            answer(status, notifications) ==
                [op |-> "GetProjectNotifications", project_id |-> projectID,
                 t |-> now, status |-> status,
                 notifications |-> notifications, count |-> Len(notifications)]
        IN /\ IF p.err
              THEN resp' = answer(StatusBadRequest, <<>>)
              ELSE IF ~findOk
              THEN resp' = answer(StatusInternalServerError, <<>>)
              ELSE \E notifications \in
                        Find(GetProjectNotificationsFilter(now, p.id), ProjectLimit) :
                      resp' = answer(StatusOK, notifications)
           /\ UNCHANGED <<runs, reaper, ticker, NotificationSettings, store, nextId, now, webhooks>>

-----------------------------------------------------------------------------
(* MarkNotificationAsRead: UpdateOne by _id *)

ById(objID) == [NoFilter EXCEPT !._id = {objID}]

(* Mutant: MatchedCount is not looked at *)
MarkReadStatusAlwaysOK(matchedCount) == StatusOK

MarkReadStatus(matchedCount) ==
    IF matchedCount = 0 THEN StatusNotFound ELSE StatusOK

(* The handler reads the id of the path and nothing of the caller: callers *)
(* is the set of identities the requests are made under.                   *)
MarkNotificationAsReadCall(callers) ==
    /\ Idle
    /\ \E caller \in callers, notificationID \in IdParams, updateOk \in BOOLEAN :
        LET p == ObjectIDFromHex(notificationID)
            answer(status, matched, modified) ==
                [op |-> "MarkNotificationAsRead", id |-> notificationID,
                 is_admin |-> caller.is_admin, user_id |-> caller.user_id,
                 status |-> status, matched |-> matched, modified |-> modified]
        IN /\ IF p.err
              THEN /\ resp' = answer(StatusBadRequest, 0, 0)
                   /\ UNCHANGED store
              ELSE IF ~updateOk
              THEN /\ resp' = answer(StatusInternalServerError, 0, 0)
                   /\ UNCHANGED store
              ELSE /\ store' = UpdateSetRead(ById(p.id))
                   /\ resp' = answer(MarkReadStatus(CountDocuments(ById(p.id))),
                                     CountDocuments(ById(p.id)),
                                     ModifiedCount(ById(p.id)))
           /\ UNCHANGED <<runs, reaper, ticker, NotificationSettings, nextId, now, webhooks>>

MarkNotificationAsRead == MarkNotificationAsReadCall(NoIdentity)

-----------------------------------------------------------------------------
(* MarkAllNotificationsAsRead: UpdateMany over the caller's unread records *)

(* Mutant: the update is restricted to the records that are still active *)
MarkAllFilterActive(isAdmin, userID) ==
    [NoFilter EXCEPT
        !.is_read = {FALSE},
        !.user_id = OwnerConstraint(isAdmin, userID).user_id,
        !.expires_gt = ActiveAt(now)]

MarkAllFilter(isAdmin, userID) ==
    [NoFilter EXCEPT
        !.is_read = {FALSE},
        !.user_id = OwnerConstraint(isAdmin, userID).user_id]

MarkAllNotificationsAsRead ==
    /\ Idle
    /\ \E caller \in Callers, updateOk \in BOOLEAN :
        LET filter == MarkAllFilter(caller.is_admin, caller.user_id)
            answer(status, n) ==
                [op |-> "MarkAllNotificationsAsRead",
                 is_admin |-> caller.is_admin, user_id |-> caller.user_id,
                 status |-> status, updated_count |-> n]
        IN /\ IF OwnerConstraint(caller.is_admin, caller.user_id).err
              THEN /\ resp' = answer(StatusBadRequest, 0)
                   /\ UNCHANGED store
              ELSE IF ~updateOk
              THEN /\ resp' = answer(StatusInternalServerError, 0)
                   /\ UNCHANGED store
              ELSE /\ store' = UpdateSetRead(filter)
                   /\ resp' = answer(StatusOK, ModifiedCount(filter))
           /\ UNCHANGED <<runs, reaper, ticker, NotificationSettings, nextId, now, webhooks>>

-----------------------------------------------------------------------------
(* DeleteNotification: DeleteOne by _id *)

(* Mutant: DeletedCount is not looked at *)
DeleteStatusAlwaysOK(deletedCount) == StatusOK

DeleteStatus(deletedCount) ==
    IF deletedCount = 0 THEN StatusNotFound ELSE StatusOK

DeleteNotificationCall(callers) ==
    /\ Idle
    /\ \E caller \in callers, notificationID \in IdParams, deleteOk \in BOOLEAN :
        LET p == ObjectIDFromHex(notificationID)
            answer(status) ==
                [op |-> "DeleteNotification", id |-> notificationID,
                 is_admin |-> caller.is_admin, user_id |-> caller.user_id,
                 status |-> status]
        IN /\ IF p.err
              THEN /\ resp' = answer(StatusBadRequest)
                   /\ UNCHANGED store
              ELSE IF ~deleteOk
              THEN /\ resp' = answer(StatusInternalServerError)
                   /\ UNCHANGED store
              ELSE /\ store' = DeleteMatching(ById(p.id))
                   /\ resp' = answer(DeleteStatus(CountDocuments(ById(p.id))))
           /\ UNCHANGED <<runs, reaper, ticker, NotificationSettings, nextId, now, webhooks>>

DeleteNotification == DeleteNotificationCall(NoIdentity)

-----------------------------------------------------------------------------
(* GetNotificationStats.  The errors of the four CountDocuments calls are  *)
(* dropped (a failed count is 0); the error of Aggregate is dropped too,   *)
(* and cursor.All on the nil cursor it leaves panics: gin.Recovery answers *)
(* 500.  failed names the store calls that failed.                         *)

StoreCalls == {"total", "unread", "active", "aggregate", "recent"}

(* The "$group" by "$type" with {"$sum": 1}: one entry per type stored *)
GroupByType ==
    [t \in {d.type : d \in store} |->
        Cardinality({d \in store : d.type = t})]

CountOrZero(failed, call, n) == IF call \in failed THEN 0 ELSE n

GetNotificationStats ==
    /\ Idle
    /\ \E failed \in SUBSET StoreCalls :
        /\ IF "aggregate" \in failed
           THEN resp' = [op |-> "GetNotificationStats", failed |-> failed,
                         t |-> now, status |-> StatusInternalServerError]
           ELSE resp' =
                  [op |-> "GetNotificationStats", failed |-> failed,
                   t |-> now, status |-> StatusOK,
                   total_notifications |->
                       CountOrZero(failed, "total", CountDocuments(NoFilter)),
                   unread_notifications |->
                       CountOrZero(failed, "unread",
                                   CountDocuments(Unread(NoFilter))),
                   active_notifications |->
                       CountOrZero(failed, "active",
                           CountDocuments([NoFilter EXCEPT
                                              !.expires_gt = ActiveAt(now)])),
                   recent_24h |->
                       CountOrZero(failed, "recent",
                           Cardinality({d \in store :
                                          d.created_at >= now - Hours24})),
                   by_type |-> GroupByType]
        /\ UNCHANGED <<runs, reaper, ticker, NotificationSettings, store, nextId, now,
                       webhooks>>

-----------------------------------------------------------------------------
(* CleanupExpiredNotifications and the notification step of                *)
(* config.CleanupExpiredData: one DeleteMany of expires_at < time.Now()    *)

(* Mutant: $lte in place of $lt *)
ExpiredAtOrEqual(t) == [NoFilter EXCEPT !.expires_lt = {t + 1}]

ExpiredAt(t) == [NoFilter EXCEPT !.expires_lt = {t}]

CleanupExpiredNotifications ==
    /\ Idle
    /\ \E deleteOk \in BOOLEAN :
        /\ IF deleteOk
           THEN /\ store' = DeleteMatching(ExpiredAt(now))
                /\ resp' = [op |-> "CleanupExpiredNotifications", err |-> FALSE,
                            t |-> now,
                            deleted |-> CountDocuments(ExpiredAt(now))]
           ELSE /\ resp' = [op |-> "CleanupExpiredNotifications", err |-> TRUE,
                            t |-> now, deleted |-> 0]
                /\ UNCHANGED store
        /\ UNCHANGED <<runs, reaper, ticker, NotificationSettings, nextId, now, webhooks>>

(* config.CleanupExpiredData: three DeleteMany calls, on the notifications,  *)
(* the chat messages and the usage logs, under one context of 30 seconds.   *)
(* DB is not nil once InitMongoDB has returned.  The contents of the two    *)
(* other collections are left out: only the outcome of their delete is kept.*)
SweepSteps == 1..3

(* What the store does with one DeleteMany: it deletes, it fails, or it     *)
(* does not answer before the deadline of the context                       *)
StoreAnswers == {"ok", "error", "silent"}

(* ctx, cancel := context.WithTimeout(context.Background(), 30*time.Second) *)
(* is made once: a call the store leaves unanswered ends at the deadline,   *)
(* and every later call on ctx returns context.DeadlineExceeded at once.    *)
WithTimeout(answers) ==
    [k \in SweepSteps |->
        IF \E j \in 1..k : answers[j] = "silent"
        THEN "deadline"
        ELSE answers[k]]

(* Mutant: the sweep deletes what expired a day ago *)
ExpiredDataFilterDayOld(t) == [NoFilter EXCEPT !.expires_lt = {t - Hours24}]

(* bson.M{"expires_at": bson.M{"$lt": time.Now()}} *)
ExpiredDataFilter(t) == [NoFilter EXCEPT !.expires_lt = {t}]

CleanupExpiredDataCall(answers) ==
    /\ Idle
    /\ \E a \in answers :
        LET steps == WithTimeout(a)
        IN  /\ IF steps[1] = "ok"
               THEN /\ store' = DeleteMatching(ExpiredDataFilter(now))
                    /\ resp' = [op |-> "CleanupExpiredData", err |-> FALSE,
                                t |-> now,
                                deleted |->
                                    CountDocuments(ExpiredDataFilter(now)),
                                answers |-> a, steps |-> steps]
               ELSE /\ resp' = [op |-> "CleanupExpiredData", err |-> FALSE,
                                t |-> now, deleted |-> 0,
                                answers |-> a, steps |-> steps]
                    /\ UNCHANGED store
    /\ UNCHANGED <<runs, reaper, ticker, NotificationSettings, nextId, now, webhooks>>

(* The sweep over collaborator stores that answer: only the delete of the   *)
(* notifications may fail                                                   *)
NotificationAnswers == {<<a, "ok", "ok">> : a \in {"ok", "error"}}

CleanupExpiredData == CleanupExpiredDataCall(NotificationAnswers)

(* config.PerformMaintenance: the sweep, whose error is nil, then a         *)
(* statistics snapshot that is logged                                       *)
PerformMaintenance == CleanupExpiredDataCall([SweepSteps -> StoreAnswers])

(* startMaintenanceTasks: one turn of its for/select.  main starts the      *)
(* goroutine before it serves; its ticker of 6 hours fires within every     *)
(* unit of the clock, so a tick is always pending.                          *)
startMaintenanceTasks == PerformMaintenance

-----------------------------------------------------------------------------
(* startNotificationCleanup: the goroutine main starts after it has loaded  *)
(* the configuration.  reaper is "unstarted" before the goroutine runs,     *)
(* "disabled" when it has returned, "panicked" when time.NewTicker has      *)
(* panicked, "startup" between NewTicker and the first cleanup, "loop" in   *)
(* the for/select.                                                          *)

ReaperInterval ==
    IF NotificationSettings.present /\ NotificationSettings.EnableCleanup
    THEN NotificationSettings.CleanupInterval
    ELSE Hours24

ReaperDisabled ==
    NotificationSettings.present /\ ~NotificationSettings.EnableCleanup

(* time.NewTicker(d) at time t; it panics unless d > 0 *)
NewTicker(d, t) == [interval |-> d, next |-> t + d, C |-> 0]

(* An unrecovered panic in a goroutine ends the process: no call returns *)
Panic == [op |-> "panic"]

startNotificationCleanup ==
    /\ Idle
    /\ reaper = "unstarted"
    /\ IF ReaperDisabled
       THEN /\ reaper' = "disabled"
            /\ UNCHANGED <<ticker, resp>>
       ELSE IF ReaperInterval <= 0
       THEN /\ reaper' = "panicked"
            /\ resp' = Panic
            /\ UNCHANGED ticker
       ELSE /\ reaper' = "startup"
            /\ ticker' = NewTicker(ReaperInterval, now)
            /\ UNCHANGED resp
    /\ UNCHANGED <<runs, NotificationSettings, store, nextId, now, webhooks>>

(* The runtime sends a tick on ticker.C, a channel of capacity 1: a tick   *)
(* that finds the channel full is dropped.                                 *)
TickerFire ==
    /\ Idle
    /\ reaper \in {"startup", "loop"}
    /\ ticker.next <= now
    /\ ticker' = [ticker EXCEPT !.next = @ + ticker.interval, !.C = 1]
    /\ UNCHANGED <<runs, NotificationSettings, store, nextId, now, webhooks, resp,
                   reaper>>

(* Mutant: a failed cycle ends the goroutine *)
ReaperStopsOnError(err) == IF err THEN "stopped" ELSE "loop"

(* The error of a cycle is logged; the goroutine goes on to the select *)
ReaperAfterCycle(err) == "loop"

(* One call of handlers.CleanupExpiredNotifications by the goroutine *)
ReaperCycle(cycle) ==
    \E deleteOk \in BOOLEAN :
        /\ IF deleteOk
           THEN /\ store' = DeleteMatching(ExpiredAt(now))
                /\ resp' = [op |-> "startNotificationCleanup", cycle |-> cycle,
                            err |-> FALSE, t |-> now,
                            deleted |-> CountDocuments(ExpiredAt(now))]
           ELSE /\ resp' = [op |-> "startNotificationCleanup", cycle |-> cycle,
                            err |-> TRUE, t |-> now, deleted |-> 0]
                /\ UNCHANGED store
        /\ reaper' = ReaperAfterCycle(~deleteOk)
        /\ UNCHANGED <<runs, NotificationSettings, nextId, now, webhooks>>

(* "Run cleanup immediately on startup" *)
ReaperStartupCleanup ==
    /\ Idle
    /\ reaper = "startup"
    /\ ReaperCycle("startup")
    /\ UNCHANGED ticker

(* case <-ticker.C *)
ReaperTickCleanup ==
    /\ Idle
    /\ reaper = "loop"
    /\ ticker.C > 0
    /\ ticker' = [ticker EXCEPT !.C = 0]
    /\ ReaperCycle("tick")

-----------------------------------------------------------------------------
(* The clock *)

Tick ==
    /\ Idle
    /\ now < MaxNow
    /\ now' = now + 1
    /\ UNCHANGED <<runs, reaper, ticker, NotificationSettings, store, nextId, webhooks, resp>>

(* A store call that the store does not answer.  The client is set up with *)
(* a server selection timeout only, and the handlers pass                  *)
(* context.Background() to every store call: the call has no deadline and  *)
(* does not return.  (The calls of CleanupExpiredData carry a deadline:    *)
(* WithTimeout.)                                                           *)
Waiting(call) == [op |-> "waiting", call |-> call]

(* The request handlers and the store call each one makes first *)
BackgroundCalls ==
    {"CreateNotification", "GetNotifications", "GetProjectNotifications",
     "MarkNotificationAsRead", "MarkAllNotificationsAsRead",
     "DeleteNotification", "GetNotificationStats",
     "CleanupExpiredNotifications"}

StoreNeverAnswers ==
    /\ Idle
    /\ \E call \in BackgroundCalls : resp' = Waiting(call)
    /\ UNCHANGED <<runs, reaper, ticker, NotificationSettings, store, nextId, now, webhooks>>

(* The same in a cycle of the reaper, which calls                          *)
(* handlers.CleanupExpiredNotifications: the goroutine does not come back  *)
(* to its select.                                                          *)
ReaperStoreNeverAnswers ==
    /\ Idle
    /\ \/ reaper = "startup" /\ UNCHANGED ticker
       \/ reaper = "loop" /\ ticker.C > 0 /\ ticker' = [ticker EXCEPT !.C = 0]
    /\ resp' = Waiting("startNotificationCleanup")
    /\ UNCHANGED <<runs, reaper, NotificationSettings, store, nextId, now, webhooks>>

(* http.ListenAndServe returns and main calls log.Fatalf: os.Exit ends the  *)
(* process with its goroutines where they are; no deferred call runs.       *)
Exited == [op |-> "exit"]

Exit ==
    /\ resp # Panic
    /\ resp # Exited
    /\ resp' = Exited
    /\ UNCHANGED <<runs, reaper, ticker, NotificationSettings, store, nextId, now, webhooks>>

(* The call in progress returns to its caller: its answer is delivered *)
Return ==
    /\ ~Idle
    /\ resp # Panic
    /\ resp # Exited
    /\ resp.op # "waiting"
    /\ resp' = NoResponse
    /\ UNCHANGED <<runs, reaper, ticker, NotificationSettings, store, nextId, now, webhooks>>

-----------------------------------------------------------------------------
(* Cleanups side by side.  The reaper goroutine, the maintenance goroutine  *)
(* and the handler of POST /admin/notifications/cleanup each issue          *)
(* DeleteMany(expires_at < time.Now()) on the same collection, with no lock *)
(* between them and none against the request handlers.  The filter is built *)
(* once, with the time.Now() of the caller; the store then removes the      *)
(* matching documents one at a time, each removal atomic, and counts them   *)
(* in DeletedCount.  Other operations on the collection fall in between.    *)
(* Of a removed document the run keeps the _id and the expires_at.          *)
Runners == {"reaper", "sweep", "admin"}

NoRun == [pc |-> "idle", t |-> 0, deleted |-> {}, n |-> 0]

NoRuns == [r \in Runners |-> NoRun]

Removed(doc) == [_id |-> doc._id, expires_at |-> doc.expires_at]

(* Mutant: the bound of the filter follows the clock during the delete *)
RunFilterFollowsClock(run) == ExpiredAt(now)

(* bson.M{"expires_at": bson.M{"$lt": time.Now()}} as the run built it *)
RunFilter(run) == ExpiredAt(run.t)

(* The caller reads the clock, builds the filter and sends the DeleteMany *)
CleanupStart(r) ==
    /\ runs[r].pc = "idle"
    /\ runs' = [runs EXCEPT ![r] =
                    [pc |-> "deleting", t |-> now, deleted |-> {}, n |-> 0]]
    /\ UNCHANGED <<reaper, ticker, NotificationSettings, store, nextId, now, webhooks,
                   resp>>

(* The store removes one document that matches the filter of the run *)
CleanupDeleteOne(r) ==
    /\ runs[r].pc = "deleting"
    /\ \E doc \in Matching(RunFilter(runs[r])) :
          /\ store' = store \ {doc}
          /\ runs' = [runs EXCEPT ![r].deleted = @ \cup {Removed(doc)},
                                   ![r].n = @ + 1]
    /\ UNCHANGED <<reaper, ticker, NotificationSettings, nextId, now, webhooks, resp>>

(* No document matches any more: DeleteMany returns result.DeletedCount,    *)
(* the caller prints it and the run is over                                 *)
CleanupEnd(r) ==
    /\ runs[r].pc = "deleting"
    /\ Matching(RunFilter(runs[r])) = {}
    /\ runs' = [runs EXCEPT ![r] = NoRun]
    /\ UNCHANGED <<reaper, ticker, NotificationSettings, store, nextId, now, webhooks,
                   resp>>

-----------------------------------------------------------------------------
(* The program: main loads the configuration from the environment, then   *)
(* serves requests.                                                        *)

Init ==
    /\ NotificationSettings \in
          {InitNotificationConfig("", e, "", "") : e \in DefaultEnv}
    /\ store = {}
    /\ nextId = 0
    /\ now = 0
    /\ webhooks = 0
    /\ resp = NoResponse
    /\ reaper = "unstarted"
    /\ ticker = NoTicker
    /\ runs = NoRuns

Next ==
    \/ Tick
    \/ CreateNotification
    \/ CreateLimitExpiredNotification
    \/ sendWebhookNotification
    \/ GetNotifications
    \/ GetProjectNotifications
    \/ MarkNotificationAsRead
    \/ MarkAllNotificationsAsRead
    \/ DeleteNotification
    \/ CleanupExpiredNotifications
    \/ CleanupExpiredData
    \/ Return

Spec == Init /\ [][Next]_vars

-----------------------------------------------------------------------------
(* Creation on its own: every expiry the environment can configure, and a  *)
(* clock that may advance between the two reads CreateNotification makes.  *)

CreateNotificationSkewed == CreateNotificationCall(ClockSkew)

CreateLimitExpiredNotificationSkewed ==
    CreateLimitExpiredNotificationCall(ClockSkew)

InitCreate ==
    /\ NotificationSettings \in
          {InitNotificationConfig("", e, "", "") : e \in DurationEnv}
    /\ store = {}
    /\ nextId = 0
    /\ now = 0
    /\ webhooks = 0
    /\ resp = NoResponse
    /\ reaper = "unstarted"
    /\ ticker = NoTicker
    /\ runs = NoRuns

NextCreate ==
    \/ Tick
    \/ CreateNotificationSkewed
    \/ CreateLimitExpiredNotificationSkewed
    \/ sendWebhookNotification
    \/ Return

SpecCreate == InitCreate /\ [][NextCreate]_vars

-----------------------------------------------------------------------------
(* Paging: the listings over collections large enough for the page limits  *)
(* of 50 and 20 to cut the result.  The collection holds the notifications *)
(* n calls of CreateNotification / CreateLimitExpiredNotification stored,  *)
(* one per day (two on some days), under an expiry of 60 days; the         *)
(* listings are called on the day of the last one or 30 days later, when   *)
(* the older notifications have expired and no cleanup has run.            *)

PageEnv == "1440h"
PageShapes == {"mine", "mixed"}
PageAges == {0, 30 * Hours24}
(* Sizes of the collection: around 0 and around the two page limits *)
PageSizes ==
    {n \in 0..MaxPage :
        \/ n <= 2
        \/ n >= ProjectLimit - 1 /\ n <= ProjectLimit + 2
        \/ n >= GeneralLimit - 1}

PageNotification(i, shape) ==
    LET kind == IF shape = "mine" THEN 1 ELSE i % 4
        day == IF i % 20 = 0 THEN i - 1 ELSE i
        n == IF kind = 0
             THEN NewNotification(2, NilObjectID, NotificationTypeLimitExpired,
                                  "Your limit has expired.", day, day)
             ELSE NewNotification(1, IF kind = 3 THEN 2 ELSE 1,
                                  NotificationTypeInfo, "m", day, day)
    IN ToDocument(i, [n EXCEPT !.IsRead = (i % 3 = 0)])

InitPage ==
    /\ NotificationSettings = InitNotificationConfig("", PageEnv, "", "")
    /\ \E n \in PageSizes, shape \in PageShapes, age \in PageAges :
          /\ store = {PageNotification(i, shape) : i \in 1..n}
          /\ nextId = n
          /\ now = n + age
    /\ webhooks = 0
    /\ resp = NoResponse
    /\ reaper = "unstarted"
    /\ ticker = NoTicker
    /\ runs = NoRuns

GetNotificationsQueried == GetNotificationsCall(TypeQueries, ProjectQueries)

NextPage ==
    \/ GetNotificationsQueried
    \/ GetProjectNotifications
    \/ CleanupExpiredNotifications
    \/ Return

SpecPage == InitPage /\ [][NextPage]_vars

-----------------------------------------------------------------------------
(* The reaper: the process starts over the collection a previous run left   *)
(* (empty, or three notifications of user 1: one expired, one expiring at   *)
(* the moment of the start, one still active), with every cleanup interval  *)
(* and cleanup switch the environment can configure.  Records leave the     *)
(* collection by the bulk deletes only.                                     *)

IntervalEnv == {"", "0s", "-24h", "1440h"}     \* NOTIFICATION_CLEANUP_INTERVAL
EnableEnv == {"", "false"}                      \* ENABLE_NOTIFICATION_CLEANUP

BacklogNotification(i) ==
    ToDocument(i, [ProjectID |-> 1, UserID |-> 1, Type |-> NotificationTypeInfo,
                   Message |-> "m", IsRead |-> (i = 2),
                   CreatedAt |-> (i - 3) * Hours24,
                   ExpiresAt |-> (i - 2) * Hours24])

Backlogs == {0, 3}

InitReaper ==
    /\ NotificationSettings \in
          {InitNotificationConfig(i, "", e, "") : i \in IntervalEnv, e \in EnableEnv}
    /\ \E n \in Backlogs :
          /\ store = {BacklogNotification(i) : i \in 1..n}
          /\ nextId = n
    /\ now = 0
    /\ webhooks = 0
    /\ resp = NoResponse
    /\ reaper = "unstarted"
    /\ ticker = NoTicker
    /\ runs = NoRuns

NextReaper ==
    \/ Tick
    \/ startNotificationCleanup
    \/ TickerFire
    \/ ReaperStartupCleanup
    \/ ReaperTickCleanup
    \/ CleanupExpiredNotifications
    \/ CleanupExpiredData
    \/ CreateNotification
    \/ MarkNotificationAsRead
    \/ Return

SpecReaper == InitReaper /\ [][NextReaper]_vars

-----------------------------------------------------------------------------
(* Read state: the general listing and MarkAllNotificationsAsRead over the  *)
(* collection a previous run left (two unread notifications and one read   *)
(* notification of user 1), and over what CreateNotification adds.  is_read *)
(* is set by MarkAllNotificationsAsRead only.                              *)

InitRead ==
    /\ NotificationSettings = InitNotificationConfig("", "", "", "")
    /\ \E n \in Backlogs :
          /\ store = {BacklogNotification(i) : i \in 1..n}
          /\ nextId = n
    /\ now = 0
    /\ webhooks = 0
    /\ resp = NoResponse
    /\ reaper = "unstarted"
    /\ ticker = NoTicker
    /\ runs = NoRuns

NextRead ==
    \/ Tick
    \/ CreateNotification
    \/ GetNotifications
    \/ MarkAllNotificationsAsRead
    \/ Return

SpecRead == InitRead /\ [][NextRead]_vars

-----------------------------------------------------------------------------
(* Statistics: GetNotificationStats over the notifications that are        *)
(* created, deleted one by one and cleaned up.                             *)

NextStats ==
    \/ Tick
    \/ CreateNotification
    \/ CreateLimitExpiredNotification
    \/ sendWebhookNotification
    \/ DeleteNotification
    \/ CleanupExpiredNotifications
    \/ GetNotificationStats
    \/ Return

SpecStats == Init /\ [][NextStats]_vars

-----------------------------------------------------------------------------
(* Background tasks: the reaper and the maintenance scheduler over the      *)
(* backlog, the administrative cleanup, stores that fail or do not answer,  *)
(* and the end of the process.                                              *)

NextMaintenance ==
    \/ Tick
    \/ startNotificationCleanup
    \/ TickerFire
    \/ ReaperStartupCleanup
    \/ ReaperTickCleanup
    \/ startMaintenanceTasks
    \/ CleanupExpiredNotifications
    \/ StoreNeverAnswers
    \/ ReaperStoreNeverAnswers
    \/ Exit
    \/ Return

SpecMaintenance == InitReaper /\ [][NextMaintenance]_vars

-----------------------------------------------------------------------------
(* Arguments: every handler that takes an identifier, called with well      *)
(* formed and malformed ones, over the notifications CreateNotification     *)
(* stores.                                                                  *)

NextArgs ==
    \/ CreateNotification
    \/ GetNotificationsQueried
    \/ GetProjectNotifications
    \/ MarkNotificationAsRead
    \/ MarkAllNotificationsAsRead
    \/ DeleteNotification
    \/ Return

SpecArgs == Init /\ [][NextArgs]_vars

-----------------------------------------------------------------------------
(* Expiry: creation under every expiry the environment can configure and   *)
(* under no configuration at all (a main that does not call                 *)
(* InitNotificationConfig leaves NotificationSettings nil), followed by the *)
(* operations that write to the collection.                                 *)

InitExpiry ==
    /\ NotificationSettings \in
          {NilSettings} \cup
          {InitNotificationConfig("", e, "", "") : e \in DurationEnv \cup {"1440h"}}
    /\ store = {}
    /\ nextId = 0
    /\ now = 0
    /\ webhooks = 0
    /\ resp = NoResponse
    /\ reaper = "unstarted"
    /\ ticker = NoTicker
    /\ runs = NoRuns

NextExpiry ==
    \/ Tick
    \/ CreateNotificationSkewed
    \/ MarkNotificationAsRead
    \/ CleanupExpiredNotifications
    \/ Return

SpecExpiry == InitExpiry /\ [][NextExpiry]_vars

-----------------------------------------------------------------------------
(* Scope: MarkNotificationAsRead and DeleteNotification called under every  *)
(* identity, on the notifications CreateNotification stores for users 1     *)
(* and 2.                                                                   *)

MarkNotificationAsReadBy == MarkNotificationAsReadCall(Callers)

DeleteNotificationBy == DeleteNotificationCall(Callers)

NextScope ==
    \/ CreateNotification
    \/ MarkNotificationAsReadBy
    \/ DeleteNotificationBy
    \/ Return

SpecScope == Init /\ [][NextScope]_vars

-----------------------------------------------------------------------------
(* Progress of the background tasks: the goroutines are scheduled, the      *)
(* clock advances, calls return, and the store goes on answering: a cycle   *)
(* of each task whose delete is carried out comes again and again.          *)

(* A turn of the maintenance loop whose delete of notifications is answered *)
SweepAnswered == startMaintenanceTasks /\ resp'.steps[1] = "ok"

(* A cycle of the reaper whose delete is answered *)
ReapAnswered == (ReaperStartupCleanup \/ ReaperTickCleanup) /\ ~resp'.err

NextLive ==
    \/ Tick
    \/ startNotificationCleanup
    \/ TickerFire
    \/ ReaperStartupCleanup
    \/ ReaperTickCleanup
    \/ startMaintenanceTasks
    \/ CreateNotification
    \/ Return

SpecLive ==
    /\ InitReaper
    /\ [][NextLive]_vars
    /\ WF_vars(Return)
    /\ SF_vars(Tick)
    /\ SF_vars(startNotificationCleanup)
    /\ SF_vars(TickerFire)
    /\ SF_vars(ReapAnswered)
    /\ SF_vars(SweepAnswered)

-----------------------------------------------------------------------------
(* The three cleanups running side by side, while requests create, mark   *)
(* and delete notifications.  A request the store fails, or one for a      *)
(* record that is not stored, leaves the collection as it is: the requests *)
(* followed here are those that change it.                                 *)

(* A CreateNotification for user 1 whose InsertOne is carried out *)
CreateStored ==
    /\ CreateNotification
    /\ ~resp'.err
    /\ \A d \in store' \ store : d.user_id = 1

(* A MarkNotificationAsRead that finds its record *)
MarkReadAnswered == MarkNotificationAsRead /\ resp'.status = StatusOK

(* A DeleteNotification that finds its record *)
DeleteAnswered == DeleteNotification /\ resp'.status = StatusOK

NextConcurrent ==
    \/ Tick
    \/ CreateStored
    \/ MarkReadAnswered
    \/ DeleteAnswered
    \/ Return
    \/ \E r \in Runners : CleanupStart(r)
    \/ \E r \in Runners : CleanupDeleteOne(r)
    \/ \E r \in Runners : CleanupEnd(r)

SpecConcurrent == Init /\ [][NextConcurrent]_vars

-----------------------------------------------------------------------------
(* Records that are expired and not yet deleted: the listing and the calls *)
(* that change records, over the collection a previous run left, in which   *)
(* no cleanup runs.                                                         *)
NextUnreaped ==
    \/ Tick
    \/ GetNotifications
    \/ MarkNotificationAsRead
    \/ MarkAllNotificationsAsRead
    \/ DeleteNotification
    \/ Return

SpecUnreaped == InitRead /\ [][NextUnreaped]_vars

-----------------------------------------------------------------------------
(* Properties *)

Listed(r) == {r.notifications[i] : i \in 1..Len(r.notifications)}

IsGeneralList == resp.op = "GetNotifications"
IsProjectList == resp.op = "GetProjectNotifications"

(* The owner id the identity of a non-privileged caller names, if any *)
CallerOwner(userID) ==
    IF ObjectIDFromHex(userID).err THEN {} ELSE {ObjectIDFromHex(userID).id}

NonPrivilegedOwners ==
    UNION {CallerOwner(c.user_id) : c \in {c \in Callers : ~c.is_admin}}

(* C1: a general listing answered to a non-privileged caller whose owner   *)
(* id is U1 holds only records whose owner is U1, whatever was created,    *)
(* read, deleted or cleaned up before.                                     *)
C1_OwnRecordsOnly ==
    (IsGeneralList /\ ~resp.is_admin) =>
        \A u \in CallerOwner(resp.user_id) :
            \A d \in Listed(resp) : d.user_id = u

C1_Witness ==
    /\ IsGeneralList /\ ~resp.is_admin /\ resp.user_id = "1"
    /\ resp.count >= 1
    /\ \E d \in store : d.user_id # 1 /\ d.expires_at > resp.t

(* C2: every general listing of a non-privileged caller is constrained by  *)
(* owner, also when the caller has no owner id: then it holds no record    *)
(* owned by a user.                                                        *)
C2_NonPrivilegedAlwaysConstrained ==
    (IsGeneralList /\ ~resp.is_admin) =>
        \A d \in Listed(resp) :
            d.user_id # Absent => d.user_id \in CallerOwner(resp.user_id)

(* C3: the tenant-scoped listing holds, for a non-privileged caller with   *)
(* owner id U1, no record whose owner is not U1.  The handler's answer is  *)
(* the same for every caller.                                              *)
C3_ProjectListOwnRecordsOnly ==
    IsProjectList =>
        \A u \in NonPrivilegedOwners :
            \A d \in Listed(resp) : d.user_id = u

(* C4: a system notification (no owner id) is in no listing answered to a  *)
(* non-privileged caller.                                                  *)
C4_SystemNotificationsPrivilegedOnly ==
    /\ (IsGeneralList /\ ~resp.is_admin) =>
            \A d \in Listed(resp) : d.user_id # Absent
    /\ IsProjectList => \A d \in Listed(resp) : d.user_id # Absent

(* C5: every stored record has expires_at > created_at, for every expiry   *)
(* the configuration can hold and with the clock read twice by Create.     *)
C5_ExpiresAfterCreated ==
    \A d \in store : d.expires_at > d.created_at

(* C6: every record in the answer of the general or of the tenant-scoped   *)
(* listing has expires_at strictly greater than the time the call read.    *)
C6_OnlyActiveListed ==
    (IsGeneralList \/ IsProjectList) =>
        \A d \in Listed(resp) : d.expires_at > resp.t

C6_Witness ==
    /\ IsGeneralList \/ IsProjectList
    /\ resp.count >= 1
    /\ \E d \in store : d.expires_at <= resp.t

(* The records a general listing is asked for: those of the caller (any    *)
(* owner's for a privileged caller or one without owner id), of the type   *)
(* and the project the query names, active when the call read the clock.   *)
InGeneralScope(d, r) ==
    /\ d.expires_at > r.t
    /\ r.is_admin \/ r.user_id = "" \/ d.user_id \in CallerOwner(r.user_id)
    /\ r.type = "" \/ d.type = r.type
    /\ CallerOwner(r.project_id) = {} \/ d.project_id \in CallerOwner(r.project_id)

InProjectScope(d, r) ==
    /\ d.expires_at > r.t
    /\ d.project_id \in CallerOwner(r.project_id)

Scope(r) ==
    IF r.op = "GetNotifications"
    THEN {d \in store : InGeneralScope(d, r)}
    ELSE {d \in store : InProjectScope(d, r)}

PageLimit(r) == IF r.op = "GetNotifications" THEN GeneralLimit ELSE ProjectLimit

Answered == (IsGeneralList \/ IsProjectList) /\ resp.status = StatusOK

(* items is a page of at most limit records of S, newest first *)
IsPage(items, S, limit) ==
    /\ Len(items) = Min(Cardinality(S), limit)
    /\ \A i \in 1..Len(items) : items[i] \in S
    /\ \A i, j \in 1..Len(items) :
          i < j => /\ items[i] # items[j]
                   /\ items[i].created_at >= items[j].created_at
    /\ \A d \in S : \A i \in 1..Len(items) :
          d.created_at > items[i].created_at =>
              \E j \in 1..Len(items) : items[j] = d

(* C7: the items of a listing are the first min(n, cap) of the n active    *)
(* records the call asks for, newest first (cap 50 general, 20 tenant),    *)
(* and count is their number, at most cap.                                 *)
C7_NewestPage ==
    Answered =>
        /\ IsPage(resp.notifications, Scope(resp), PageLimit(resp))
        /\ resp.count = Len(resp.notifications)
        /\ resp.count <= PageLimit(resp)

C7_Witness ==
    /\ Answered /\ IsGeneralList
    /\ Cardinality(Scope(resp)) > GeneralLimit
    /\ resp.count = GeneralLimit

C7_WitnessProject ==
    /\ Answered /\ IsProjectList
    /\ Cardinality(Scope(resp)) > ProjectLimit
    /\ resp.count = ProjectLimit

IsCleanup ==
    resp.op \in {"CleanupExpiredNotifications", "CleanupExpiredData"}

(* C8: a stored notification is in every listing that asks for it and is   *)
(* answered while it is active; after a cleanup that ran when its expiry   *)
(* had passed it is in no listing and not in the store.                    *)
C8_ListedUntilReaped ==
    /\ Answered => \A d \in Scope(resp) : d \in Listed(resp)
    /\ Answered => \A d \in Listed(resp) : d.expires_at > resp.t
    /\ (IsCleanup /\ ~resp.err) => \A d \in store : ~(d.expires_at < resp.t)

(* C8 as amended: ... is in every such listing unless the page is full of  *)
(* records at least as new (50 general, 20 tenant-scoped).                 *)
C8_ListedUnlessPageFull ==
    /\ Answered =>
          \A d \in Scope(resp) :
              \/ d \in Listed(resp)
              \/ /\ resp.count = PageLimit(resp)
                 /\ \A e \in Listed(resp) : e.created_at >= d.created_at
    /\ Answered => \A d \in Listed(resp) : d.expires_at > resp.t
    /\ (IsCleanup /\ ~resp.err) => \A d \in store : ~(d.expires_at < resp.t)

C8_Witness ==
    /\ Answered
    /\ resp.count = PageLimit(resp)
    /\ \E d \in Scope(resp) : d \notin Listed(resp)
    /\ \E d \in store : d.expires_at < resp.t

IsMarkRead == resp.op = "MarkNotificationAsRead"

WithId(S, notificationID) ==
    {d \in S : d._id \in CallerOwner(notificationID)}

(* C9: MarkRead on an existing record answers ok and leaves it read; on a  *)
(* record that is already read it answers ok again, modifies nothing and   *)
(* leaves the store as it was (a store failure apart).                     *)
C9_MarkReadIdempotent ==
    [][(Idle /\ IsMarkRead') =>
         LET target == WithId(store, resp'.id)
         IN /\ resp'.status = StatusOK =>
                  /\ target # {}
                  /\ \A d \in WithId(store', resp'.id) : d.is_read
                  /\ store' \ WithId(store', resp'.id) = store \ target
            /\ (target # {} /\ resp'.status # StatusInternalServerError) =>
                  resp'.status = StatusOK
            /\ ((\E d \in target : d.is_read)
                  /\ resp'.status # StatusInternalServerError) =>
                  /\ store' = store
                  /\ resp'.modified = 0]_vars

C9_Witness ==
    /\ IsMarkRead /\ resp.status = StatusOK
    /\ resp.matched = 1 /\ resp.modified = 0
    /\ \E d \in WithId(store, resp.id) : d.is_read

(* C10: MarkRead on a well-formed id that no stored record has answers     *)
(* NotFound (the store error when the store fails) and leaves the store    *)
(* unchanged.                                                              *)
C10_MarkReadNotFound ==
    [][(Idle /\ IsMarkRead' /\ CallerOwner(resp'.id) # {}
            /\ WithId(store, resp'.id) = {}) =>
         /\ resp'.status \in {StatusNotFound, StatusInternalServerError}
         /\ store' = store]_vars

C10_Witness ==
    /\ IsMarkRead /\ resp.status = StatusNotFound
    /\ \E id \in CallerOwner(resp.id) : id <= nextId
    /\ store # {}

(* The ids of the documents of S *)
StoredIds(S) == {d._id : d \in S}

(* C11: an id the store has given out and holds no more (here: removed by   *)
(* a bulk delete of the reaper, the maintenance sweep or the cleanup route) *)
(* never comes back, and MarkRead on it answers NotFound (the store error   *)
(* when the store fails), never ok.                                         *)
C11_MarkReadAfterBulkDelete ==
    [][/\ \A i \in 1..nextId :
             i \notin StoredIds(store) => i \notin StoredIds(store')
       /\ (Idle /\ IsMarkRead') =>
             \A i \in CallerOwner(resp'.id) :
                 (i <= nextId /\ i \notin StoredIds(store)) =>
                     /\ resp'.status \in {StatusNotFound, StatusInternalServerError}
                     /\ i \notin StoredIds(store')]_vars

C11_Witness ==
    /\ IsMarkRead /\ resp.status = StatusNotFound
    /\ reaper = "loop"
    /\ \E i \in CallerOwner(resp.id) : i <= nextId /\ i \notin StoredIds(store)

(* C12: a record enters the store with is_read false, and in every step a  *)
(* record that is read and stays in the store stays read.                  *)
C12_IsReadOnlyFalseToTrue ==
    [][\A e \in store' :
          IF e._id \in StoredIds(store)
          THEN \A d \in store : (d._id = e._id /\ d.is_read) => e.is_read
          ELSE ~e.is_read]_vars

C12_Witness ==
    /\ resp.op = "MarkAllNotificationsAsRead" /\ resp.status = StatusOK
    /\ resp.updated_count = 0
    /\ \E d \in store : d.is_read
    /\ \E d \in store : ~d.is_read

(* A run of handlers.CleanupExpiredNotifications: by the route or the reaper *)
IsReap == resp.op \in {"CleanupExpiredNotifications", "startNotificationCleanup"}

ExpiredIn(S, t) == {d \in S : d.expires_at < t}

(* C13: a cleanup run that succeeds leaves no record expired at its time,   *)
(* and a run over a store with no record expired at its time (as the run    *)
(* before it left it) deletes zero records and leaves the store as it was.  *)
C13_CleanupIdempotent ==
    [][(Idle /\ IsReap' /\ ~resp'.err) =>
          /\ ExpiredIn(store', resp'.t) = {}
          /\ ExpiredIn(store, resp'.t) = {} =>
                (resp'.deleted = 0 /\ store' = store)]_vars

C13_Witness ==
    /\ resp.op = "CleanupExpiredNotifications" /\ ~resp.err
    /\ resp.deleted = 0 /\ resp.t = 0
    /\ reaper = "loop"
    /\ nextId = 3 /\ Cardinality(store) = 2

(* C14: a cleanup run that succeeds reads the clock once and removes the    *)
(* records with expires_at before that time and no other; every record     *)
(* that stays is the same document as before, and the count it reports is  *)
(* the number removed.  The notification step of the maintenance sweep     *)
(* does the same or, when its delete fails, nothing.                       *)
C14_CleanupDeletesExactlyExpired ==
    [][/\ (Idle /\ IsReap' /\ ~resp'.err) =>
             /\ resp'.t = now
             /\ store' = {d \in store : d.expires_at >= now}
             /\ resp'.deleted = Cardinality(store) - Cardinality(store')
       /\ (Idle /\ resp'.op = "CleanupExpiredData") =>
             store' \in {store, {d \in store : d.expires_at >= now}}]_vars

C14_Witness ==
    /\ IsReap /\ ~resp.err /\ resp.deleted = 1
    /\ Cardinality(store) = 2
    /\ \E d \in store : d.expires_at = resp.t /\ d.is_read
    /\ \E d \in store : d.expires_at > resp.t /\ ~d.is_read

IsMarkAll == resp.op = "MarkAllNotificationsAsRead"

(* The records the calls of the caller of r reach: all for a privileged    *)
(* caller and for one without owner id, else those of its owner id.        *)
InCallerScope(d, r) ==
    r.is_admin \/ r.user_id = "" \/ d.user_id \in CallerOwner(r.user_id)

(* C15: MarkAllRead answers with the number of records it changed, which   *)
(* is the number of unread records in the caller's scope, and leaves none  *)
(* of them unread; a listing by a caller with no unread record in scope    *)
(* reports unread_count 0.                                                 *)
C15_MarkAllReadCount ==
    [][/\ (Idle /\ IsMarkAll' /\ resp'.status = StatusOK) =>
             /\ resp'.updated_count = Cardinality(store \ store')
             /\ resp'.updated_count =
                   Cardinality({d \in store : InCallerScope(d, resp') /\ ~d.is_read})
             /\ \A d \in store' : InCallerScope(d, resp') => d.is_read
       /\ (Idle /\ IsGeneralList' /\ resp'.status = StatusOK
              /\ \A d \in store : InCallerScope(d, resp') => d.is_read) =>
             resp'.unread_count = 0]_vars

C15_WitnessCount ==
    /\ IsMarkAll /\ resp.status = StatusOK /\ resp.user_id = "1"
    /\ resp.updated_count = 2
    /\ Cardinality({d \in store : InCallerScope(d, resp)}) = 3

C15_Witness ==
    /\ IsGeneralList /\ resp.status = StatusOK /\ resp.user_id = "1"
    /\ resp.count >= 1 /\ resp.unread_count = 0
    /\ Cardinality({d \in store : InCallerScope(d, resp) /\ d.is_read}) = 3

IsDelete == resp.op = "DeleteNotification"

(* C16: Delete of a stored record answers ok and removes that record and   *)
(* no other; Delete of a well-formed id no record has answers NotFound and *)
(* leaves the store; a removed id never comes back, so a second Delete of  *)
(* it answers NotFound.  (A failed store call answers the store error and  *)
(* leaves the store.)                                                      *)
C16_DeleteRemovesOrNotFound ==
    [][/\ \A i \in 1..nextId :
             i \notin StoredIds(store) => i \notin StoredIds(store')
       /\ (Idle /\ IsDelete' /\ CallerOwner(resp'.id) # {}) =>
             LET target == WithId(store, resp'.id)
             IN /\ resp'.status \in
                      {StatusOK, StatusNotFound, StatusInternalServerError}
                /\ resp'.status = StatusOK =>
                      (target # {} /\ store' = store \ target)
                /\ resp'.status = StatusNotFound =>
                      (target = {} /\ store' = store)
                /\ resp'.status = StatusInternalServerError => store' = store]_vars

C16_Witness ==
    /\ IsDelete /\ resp.status = StatusNotFound
    /\ now = 0
    /\ store # {}
    /\ \E i \in CallerOwner(resp.id) : i <= nextId /\ i \notin StoredIds(store)

(* C17: a MarkRead or MarkAllRead that answers ok has written is_read true *)
(* to the store for the records it is about, and the items of every        *)
(* listing are documents of the store as it is when the listing answers.   *)
C17_NoStaleReads ==
    [][/\ (Idle /\ IsMarkRead' /\ resp'.status = StatusOK) =>
             \A d \in WithId(store', resp'.id) : d.is_read
       /\ (Idle /\ IsMarkAll' /\ resp'.status = StatusOK) =>
             \A d \in store' : InCallerScope(d, resp') => d.is_read
       /\ (Idle /\ (IsGeneralList' \/ IsProjectList')) =>
             Listed(resp') \subseteq store']_vars

C17_Witness ==
    /\ IsGeneralList /\ resp.status = StatusOK
    /\ \E d \in Listed(resp) : d.is_read
    /\ \E d \in Listed(resp) : ~d.is_read

IsStats == resp.op = "GetNotificationStats"

OfType(type) == {d \in store : d.type = type}

(* What C18 asks of an answer of Stats *)
CountsLimitExpired ==
    /\ resp.status = StatusOK
    /\ resp.total_notifications >= 1
    /\ NotificationTypeLimitExpired \in DOMAIN resp.by_type
    /\ resp.by_type[NotificationTypeLimitExpired] =
          Cardinality(OfType(NotificationTypeLimitExpired))

(* C18: while a notification of type limit_expired is stored, Stats        *)
(* answers with total >= 1 and by_type[limit_expired] >= 1, the number of  *)
(* stored records of that type, active or expired.                         *)
C18_StatsCountLimitExpired ==
    (IsStats /\ OfType(NotificationTypeLimitExpired) # {}) => CountsLimitExpired

(* The same when every store call of Stats is answered *)
StatsOfAnsweringStore ==
    (IsStats /\ resp.failed = {} /\ OfType(NotificationTypeLimitExpired) # {}) =>
        CountsLimitExpired

StatsOfAnsweringStoreWitness ==
    /\ IsStats /\ resp.failed = {}
    /\ \E d \in OfType(NotificationTypeLimitExpired) : d.expires_at < resp.t
    /\ resp.active_notifications = 0

IsReaperCycle == resp.op = "startNotificationCleanup"

(* The goroutine leaves the startup by its first cleanup, which takes no   *)
(* tick; every cleanup of the goroutine is that one or takes a tick off    *)
(* ticker.C.                                                               *)
StartupCleanupThenTicks ==
    /\ (reaper = "startup" /\ reaper' # "startup") =>
          (IsReaperCycle' /\ resp'.cycle = "startup" /\ ticker' = ticker)
    /\ (Idle /\ IsReaperCycle') =>
          \/ reaper = "startup" /\ resp'.cycle = "startup"
          \/ /\ reaper = "loop" /\ resp'.cycle = "tick"
             /\ ticker.C = 1 /\ ticker'.C = 0

(* C19: when cleanup is enabled the goroutine, once it runs, is about to   *)
(* make its startup cleanup; it makes it before it takes a tick, and every *)
(* later cleanup takes a tick.                                             *)
C19_ReapAtStartupThenOnTicks ==
    [][/\ (reaper = "unstarted" /\ reaper' # "unstarted" /\ ~ReaperDisabled) =>
             reaper' = "startup"
       /\ StartupCleanupThenTicks]_vars

(* The same for the cleanup intervals time.NewTicker accepts *)
ReapAtStartupThenOnTicksOfPositiveInterval ==
    [][/\ (reaper = "unstarted" /\ reaper' # "unstarted" /\ ~ReaperDisabled
             /\ ReaperInterval > 0) =>
             reaper' = "startup"
       /\ StartupCleanupThenTicks]_vars

ReapOnTickWitness ==
    /\ IsReaperCycle /\ resp.cycle = "tick" /\ ~resp.err
    /\ resp.deleted = 1 /\ resp.t = 1

(* C20: a cycle of the reaper that fails leaves the store as it was and    *)
(* the goroutine in its loop, the process running; the goroutine never     *)
(* leaves the loop, and in the loop a tick on ticker.C is taken by a       *)
(* cleanup as soon as no other call is in progress.                        *)
C20_FailedCycleKeepsReaper ==
    [][/\ (Idle /\ IsReaperCycle' /\ resp'.err) =>
             (store' = store /\ reaper' = "loop" /\ resp' # Panic)
       /\ reaper = "loop" => reaper' = "loop"
       /\ (reaper = "loop" /\ ticker.C > 0 /\ Idle) =>
             ENABLED ReaperTickCleanup]_vars

(* A cycle on a tick deletes the record that was expired at the startup:   *)
(* the startup cycle has failed.                                           *)
C20_Witness ==
    /\ IsReaperCycle /\ resp.cycle = "tick" /\ ~resp.err
    /\ resp.t = 1 /\ resp.deleted = 2
    /\ nextId = 3
    /\ reaper = "loop"

-----------------------------------------------------------------------------
IsSweep == resp.op = "CleanupExpiredData"

(* C21: in one sweep a failure of a sub-step, a timeout included, does not  *)
(* prevent the other sub-steps from being attempted and from succeeding:    *)
(* every sub-step whose store would carry out the delete succeeds.          *)
C21_SubStepsIndependent ==
    IsSweep =>
        \A k \in SweepSteps : resp.answers[k] = "ok" => resp.steps[k] = "ok"

(* When no call of the sweep times out, the three deletes are attempted     *)
(* and each one succeeds or fails on its own.                               *)
SubStepsIndependentOfErrors ==
    IsSweep /\ (\A k \in SweepSteps : resp.answers[k] # "silent") =>
        resp.steps = resp.answers

SubStepsIndependentOfErrorsWitness ==
    /\ IsSweep
    /\ resp.answers = <<"error", "ok", "error">>
    /\ resp.steps[2] = "ok"

-----------------------------------------------------------------------------
IsCreateLimit == resp.op = "CreateLimitExpiredNotification"

(* C22: the webhook dispatch is detached from CreateLimitExpiredNotification:*)
(* the caller can return while a dispatch is pending, the end of a dispatch  *)
(* changes neither the answer of a caller nor the collection, and a dispatch *)
(* is started by a create that stored its notification only, one per create: *)
(* none is started again.                                                    *)
C22_WebhookDetached ==
    [][/\ IsCreateLimit => ENABLED Return
       /\ webhooks' < webhooks =>
              /\ webhooks' = webhooks - 1
              /\ UNCHANGED <<store, resp>>
       /\ webhooks' > webhooks =>
              /\ webhooks' = webhooks + 1
              /\ Idle
              /\ IsCreateLimit'
              /\ ~resp'.err
              /\ Cardinality(store') = Cardinality(store) + 1
       /\ (IsCreateLimit /\ Idle') => webhooks' = webhooks]_vars

(* The caller has returned, its notification is stored, the dispatch it     *)
(* started has not ended                                                    *)
C22_Witness ==
    /\ Idle
    /\ webhooks > 0
    /\ \E d \in store : d.type = NotificationTypeLimitExpired

-----------------------------------------------------------------------------
(* An identifier that is given and is not the hex form of an ObjectID *)
Malformed(s) == s # "" /\ ObjectIDFromHex(s).err

(* The answer of a call that was given a malformed record id, caller owner  *)
(* id or tenant id of the tenant-scoped listing                             *)
MalformedIdAnswer(r) ==
    \/ r.op \in {"MarkNotificationAsRead", "DeleteNotification"}
           /\ Malformed(r.id)
    \/ r.op \in {"GetNotifications", "MarkAllNotificationsAsRead"}
           /\ ~r.is_admin /\ Malformed(r.user_id)
    \/ r.op = "GetProjectNotifications" /\ Malformed(r.project_id)

(* The answer of a general listing that was given a malformed tenant filter *)
MalformedTenantFilterAnswer(r) ==
    r.op = "GetNotifications" /\ Malformed(r.project_id)

(* C23: every malformed identifier given to an operation (record id, caller *)
(* owner id, tenant filter of the general listing, tenant id of the tenant  *)
(* listing) makes it fail with 400 and leaves the collection as it was.     *)
C23_MalformedIdsRejected ==
    [][(Idle /\ (MalformedIdAnswer(resp') \/ MalformedTenantFilterAnswer(resp')))
          => resp'.status = StatusBadRequest /\ store' = store]_vars

(* The same for every identifier but the tenant filter of the general       *)
(* listing                                                                  *)
MalformedIdsRejectedButTenantFilter ==
    [][(Idle /\ MalformedIdAnswer(resp'))
          => resp'.status = StatusBadRequest /\ store' = store]_vars

MalformedIdsRejectedWitness ==
    /\ store # {}
    /\ MalformedIdAnswer(resp)
    /\ resp.op = "DeleteNotification"
    /\ resp.status = StatusBadRequest

-----------------------------------------------------------------------------
(* C24: a foreground operation one of whose store calls failed reports a    *)
(* failure; here GetNotificationStats, whose answer names the store calls   *)
(* that failed: it is never a 200 with counts taken from a failed call.     *)
C24_StoreFailureReported ==
    (IsStats /\ resp.failed # {}) => resp.status # StatusOK

-----------------------------------------------------------------------------
(* C25: every store call of a request handler and of a periodic task is     *)
(* bounded by a timeout: no call in progress is waiting, without a          *)
(* deadline, for a store that does not answer.                              *)
C25_StoreCallsBounded == resp.op # "waiting"

(* The calls of the maintenance sweep are bounded: a sweep whose store does *)
(* not answer ends with the deadline exceeded and the task goes on.         *)
SweepCallsBounded ==
    [][(IsSweep /\ \E k \in SweepSteps : resp.answers[k] = "silent")
          => (ENABLED Return /\ \E k \in SweepSteps : resp.steps[k] = "deadline")]_vars

SweepCallsBoundedWitness ==
    IsSweep /\ resp.answers[1] = "silent" /\ resp.steps[3] = "deadline"

-----------------------------------------------------------------------------
(* C26: the periodic tasks shut down gracefully: once the shutdown of the   *)
(* process has begun no sweep is started and the loop of the task has       *)
(* terminated, that is, the goroutine has left its for/select.              *)
C26_LoopsTerminateAtShutdown ==
    /\ resp = Exited => reaper \notin {"startup", "loop"}
    /\ resp = Exited => ~ENABLED (ReaperTickCleanup \/ startMaintenanceTasks)

-----------------------------------------------------------------------------
(* The answer of a deletion that the store carried out: of the reaper, of   *)
(* the administrative cleanup, or of the notification step of the sweep     *)
CarriedOut(r) ==
    \/ r.op \in {"startNotificationCleanup", "CleanupExpiredNotifications"}
           /\ ~r.err
    \/ r.op = "CleanupExpiredData" /\ r.steps[1] = "ok"

(* C27: the deletion of the maintenance sweep, the one of the reaper and    *)
(* the administrative cleanup are the same operation: whichever of them is  *)
(* carried out on a collection at an instant, it removes the records the    *)
(* filter of the other removes, and leaves the same collection.             *)
C27_SameDeletion ==
    [][(Idle /\ CarriedOut(resp')) =>
          /\ store' = DeleteMatching(ExpiredAt(now))
          /\ store' = DeleteMatching(ExpiredDataFilter(now))
          /\ resp'.deleted = CountDocuments(ExpiredAt(now))
          /\ resp'.deleted = CountDocuments(ExpiredDataFilter(now))]_vars

(* A sweep has deleted the expired record of the backlog and has left the   *)
(* record that expires at this instant and the active one                   *)
C27_Witness ==
    /\ IsSweep /\ CarriedOut(resp)
    /\ resp.deleted = 1
    /\ Cardinality(store) = 2
    /\ \E d \in store : d.expires_at = resp.t

(* The administrative cleanup has done the same *)
C27_WitnessCleanup ==
    /\ resp.op = "CleanupExpiredNotifications" /\ CarriedOut(resp)
    /\ resp.deleted = 1
    /\ Cardinality(store) = 2
    /\ \E d \in store : d.expires_at = resp.t

-----------------------------------------------------------------------------
(* A document without its is_read *)
Frame(d) == [d EXCEPT !.is_read = FALSE]

(* C28: in every step, every record that stays in the collection keeps its  *)
(* id, tenant, owner, type, message, created_at and expires_at: is_read is   *)
(* the only field changed in place, and expires_at is never extended.       *)
C28_OnlyIsReadChanges ==
    [][\A e \in store' :
          e._id \in StoredIds(store) =>
              \E d \in store :
                  /\ d._id = e._id
                  /\ Frame(d) = Frame(e)
                  /\ e.expires_at <= d.expires_at]_vars

(* A record has been changed in place: MarkNotificationAsRead has modified  *)
(* it, after the clock has moved on from its creation                       *)
C28_Witness ==
    /\ IsMarkRead /\ resp.status = StatusOK /\ resp.modified = 1
    /\ \E d \in WithId(store, resp.id) :
           /\ d.is_read
           /\ d.created_at < now
           /\ d.expires_at = d.created_at + NotificationSettings.DefaultExpiry

-----------------------------------------------------------------------------
(* C29: a record whose expires_at is the instant of the call is in no       *)
(* listing made at that instant and is not deleted by a cleanup made at     *)
(* that instant: a cleanup deletes a record only when it runs strictly      *)
(* after the record's expires_at.                                           *)
C29_ExpiringNowNeitherListedNorReaped ==
    [][/\ (Idle /\ (IsGeneralList' \/ IsProjectList')) =>
              \A d \in Listed(resp') : d.expires_at # resp'.t
       /\ (Idle /\ IsCleanup') =>
              \A d \in store :
                  /\ d.expires_at = resp'.t => d \in store'
                  /\ d \notin store' => d.expires_at < resp'.t]_vars

(* A cleanup has deleted one record and has left the one that expires at    *)
(* the instant of the cleanup                                               *)
C29_Witness ==
    /\ IsCleanup /\ resp.deleted = 1
    /\ \E d \in store : d.expires_at = resp.t

(* A listing of the caller's records, made at the instant its only record   *)
(* expires, is empty                                                        *)
C29_WitnessListing ==
    /\ IsGeneralList /\ resp.status = StatusOK /\ resp.count = 0
    /\ Scope(resp) = {}
    /\ \E d \in store : d.expires_at = resp.t /\ InCallerScope(d, resp)

-----------------------------------------------------------------------------
(* The unread records among S *)
UnreadIn(S) == {d \in S : ~d.is_read}

(* C30: the unread_count of an answered general listing is the number of    *)
(* stored records that match the filter of its items and are unread,        *)
(* whatever the page limit; it is the number of unread items when at most   *)
(* 50 records match.                                                        *)
C30_UnreadCountOfFilter ==
    (IsGeneralList /\ resp.status = StatusOK) =>
        /\ resp.unread_count = Cardinality(UnreadIn(Scope(resp)))
        /\ Cardinality(Scope(resp)) <= GeneralLimit =>
               resp.unread_count = Cardinality(UnreadIn(Listed(resp)))

(* The unread_count is that number or, when the count was not answered, 0 *)
UnreadCountOfFilterOrZero ==
    (IsGeneralList /\ resp.status = StatusOK) =>
        resp.unread_count \in {0, Cardinality(UnreadIn(Scope(resp)))}

(* More than 50 records match and the unread_count is above the number of   *)
(* unread items of the page                                                 *)
UnreadCountOfFilterWitness ==
    /\ IsGeneralList /\ resp.status = StatusOK
    /\ resp.count = GeneralLimit
    /\ resp.unread_count > Cardinality(UnreadIn(Listed(resp)))
    /\ resp.unread_count = Cardinality(UnreadIn(Scope(resp)))

-----------------------------------------------------------------------------
IsCreate == resp.op \in {"CreateNotification", "CreateLimitExpiredNotification"}

(* The expiry in force: the configured one, or 24 hours without settings *)
ExpiryInForce ==
    IF NotificationSettings.present
    THEN NotificationSettings.DefaultExpiry
    ELSE Hours24

(* C31: a record enters the collection in a step of Create with expires_at  *)
(* equal to the time Create read plus the configured default expiry, or     *)
(* plus 24 hours when there is no configuration; in every step a record     *)
(* that stays keeps its expires_at.                                         *)
C31_ExpiresAtSetByCreateOnly ==
    [][\A e \in store' :
          IF e._id \in StoredIds(store)
          THEN \E d \in store : d._id = e._id /\ d.expires_at = e.expires_at
          ELSE /\ Idle
               /\ IsCreate'
               /\ e.expires_at = now + ExpiryInForce]_vars

(* Without configuration a record has been stored that expires 24 hours     *)
(* after the time Create read, and an update has been made on it since      *)
C31_Witness ==
    /\ ~NotificationSettings.present
    /\ IsMarkRead /\ resp.status = StatusOK /\ resp.modified = 1
    /\ \E d \in store : d.is_read /\ d.expires_at = d.created_at + Hours24

(* Under a configured expiry of 60 days a record has been stored with it *)
C31_WitnessConfigured ==
    /\ NotificationSettings.present
    /\ NotificationSettings.DefaultExpiry = 60 * Hours24
    /\ \E d \in store : d.expires_at = d.created_at + 60 * Hours24

-----------------------------------------------------------------------------
(* The records whose is_read differs between the collections S and T *)
IsReadChanged(S, T) ==
    {d \in S : \E e \in T : e._id = d._id /\ e.is_read # d.is_read}

(* C32: MarkAllRead by a caller who is not privileged changes is_read on    *)
(* records of the caller's owner id only, also when that id is absent: the  *)
(* records of other owners and the system notifications keep their is_read. *)
C32_MarkAllOwnRecordsOnly ==
    [][(Idle /\ IsMarkAll' /\ ~resp'.is_admin) =>
          \A d \in IsReadChanged(store, store') :
              d.user_id \in CallerOwner(resp'.user_id)]_vars

(* The same for the callers whose owner id is given *)
MarkAllOwnRecordsOnlyOfGivenOwner ==
    [][(Idle /\ IsMarkAll' /\ ~resp'.is_admin /\ resp'.user_id # "") =>
          \A d \in IsReadChanged(store, store') :
              d.user_id \in CallerOwner(resp'.user_id)]_vars

(* User 1 has marked a record read while an unread record of user 2 stayed *)
(* unread                                                                   *)
MarkAllOwnRecordsOnlyWitness ==
    /\ IsMarkAll /\ ~resp.is_admin /\ resp.user_id = "1"
    /\ resp.status = StatusOK /\ resp.updated_count = 1
    /\ \E d \in store : d.user_id = 2 /\ ~d.is_read

-----------------------------------------------------------------------------
(* The caller of the answer r is not privileged and its owner id is not the *)
(* owner of d                                                               *)
LacksScope(r, d) ==
    /\ ~r.is_admin
    /\ CallerOwner(r.user_id) # {}
    /\ d.user_id \notin CallerOwner(r.user_id)

(* C33: MarkRead(id) and Delete(id) by a caller who lacks scope over the    *)
(* record match no record: the record stays as it is and the answer is not  *)
(* a success.                                                               *)
C33_OutOfScopeUntouched ==
    [][(Idle /\ (IsMarkRead' \/ IsDelete')) =>
          \A d \in WithId(store, resp'.id) :
              LacksScope(resp', d) =>
                  d \in store' /\ resp'.status # StatusOK]_vars

-----------------------------------------------------------------------------
Stored(i) == \E d \in store : d._id = i

ExpiredStored(i) == \E d \in store : d._id = i /\ d.expires_at < now

(* C34: under fair scheduling of the periodic tasks, an advancing clock and *)
(* a store that goes on answering, every stored notification whose          *)
(* expires_at has passed is eventually deleted.                             *)
C34_ExpiredEventuallyDeleted ==
    \A i \in OidRange : ExpiredStored(i) ~> ~Stored(i)

(* The same as long as the reaper has not brought the process down *)
ExpiredEventuallyDeletedUnlessPanic ==
    \A i \in OidRange : ExpiredStored(i) ~> (~Stored(i) \/ reaper = "panicked")

(* The expired record of the backlog has been deleted and the reaper, whose *)
(* cleanup is switched off, has returned                                    *)
ExpiredEventuallyDeletedWitness ==
    /\ nextId = 3 /\ ~Stored(1) /\ Stored(3)
    /\ reaper = "disabled"

-----------------------------------------------------------------------------
(* C35: when the reaper, the maintenance sweep and an on-demand cleanup run *)
(* side by side, and beside CreateNotification, MarkNotificationAsRead and  *)
(* DeleteNotification, a cleanup never deletes a record whose expires_at is *)
(* not before the time the run read, no record is removed by two runs, the  *)
(* count of each run is the number of records it removed, every record that *)
(* leaves the store outside DeleteNotification is counted by exactly one    *)
(* run, and a run ends only when no record expired at its time is left.     *)
RemovedByHandler == Idle /\ resp'.op = "DeleteNotification"

C35_ConcurrentCleanups ==
    [][ /\ \A r \in Runners :
            /\ \A doc \in runs'[r].deleted : doc.expires_at < runs'[r].t
            /\ runs'[r].n = Cardinality(runs'[r].deleted)
            /\ (runs[r].pc = "deleting" /\ runs'[r].pc = "idle")
                   => \A doc \in store' : ~(doc.expires_at < runs[r].t)
        /\ \A r1, r2 \in Runners :
            r1 # r2 =>
                {doc._id : doc \in runs'[r1].deleted}
                    \cap {doc._id : doc \in runs'[r2].deleted} = {}
        /\ (\A r \in Runners : runs[r].pc = "deleting" /\ runs'[r].pc = "idle"
                 => runs[r].n = Cardinality(runs[r].deleted))
        /\ (StoredIds(store) \ StoredIds(store') # {} /\ ~RemovedByHandler)
               => \E r \in Runners :
                    /\ runs'[r].deleted =
                          runs[r].deleted \cup {Removed(doc) : doc \in store \ store'}
                    /\ runs'[r].n = runs[r].n + Cardinality(store \ store')
                    /\ \A q \in Runners \ {r} : runs'[q] = runs[q]
      ]_vars

(* Two runs that read the same time are at their end, each having removed   *)
(* one of the two records expired at that time                              *)
C35_Witness ==
    /\ runs["reaper"].pc = "deleting"
    /\ runs["sweep"].pc = "deleting"
    /\ runs["reaper"].t = runs["sweep"].t
    /\ runs["reaper"].n = 1
    /\ runs["sweep"].n = 1
    /\ ENABLED CleanupEnd("reaper")
    /\ ENABLED CleanupEnd("sweep")

-----------------------------------------------------------------------------
(* C36: a call of CreateLimitExpiredNotification whose CreateNotification    *)
(* stored the notification starts exactly one webhook dispatch, after the    *)
(* insert; a call whose CreateNotification failed starts none and stores     *)
(* nothing; and no other step starts a dispatch.                             *)
C36_DispatchOncePerStoredCreate ==
    [][IF Idle /\ IsCreateLimit'
       THEN IF resp'.err
            THEN /\ webhooks' = webhooks
                 /\ store' = store
            ELSE /\ webhooks' = webhooks + 1
                 /\ \E d \in store' \ store :
                       /\ d.type = NotificationTypeLimitExpired
                       /\ store' = store \cup {d}
       ELSE webhooks' <= webhooks]_vars

(* A call has failed after an earlier one stored its notification: one      *)
(* notification is stored and one dispatch was started                      *)
C36_Witness ==
    /\ IsCreateLimit
    /\ resp.err
    /\ webhooks = 1
    /\ Cardinality(store) = 1
    /\ \A d \in store : d.type = NotificationTypeLimitExpired

-----------------------------------------------------------------------------
(* C37: when the configuration switches the cleanup off, no background task *)
(* deletes notifications: a step that takes records out of the collection   *)
(* is the cleanup asked for on demand or a DeleteNotification.              *)
C37_NoBackgroundDeletionWhenDisabled ==
    [][(ReaperDisabled /\ StoredIds(store) \ StoredIds(store') # {})
          => resp'.op \in {"CleanupExpiredNotifications", "DeleteNotification"}]_vars

(* The part of C37 about the reaper: with the cleanup switched off the      *)
(* goroutine returns before its first cleanup and never runs a cycle.       *)
ReaperExitsWhenDisabled ==
    [][ReaperDisabled =>
          /\ reaper' \in {"unstarted", "disabled"}
          /\ ~IsReaperCycle']_vars

(* The goroutine has returned and an expired notification is in the store *)
ReaperExitsWhenDisabledWitness ==
    /\ ReaperDisabled
    /\ reaper = "disabled"
    /\ ExpiredIn(store, now) # {}

-----------------------------------------------------------------------------
(* C38: whatever cleanup interval the configuration holds, a zero or a      *)
(* negative one included, startNotificationCleanup does not end the         *)
(* process: the goroutine is never left by a panic.                         *)
C38_ReaperStartDoesNotCrash == reaper # "panicked"

(* The same for the configurations whose interval is positive or whose      *)
(* cleanup is switched off: the goroutine goes to its loop or returns.      *)
ReaperStartDoesNotCrashOfPositiveInterval ==
    (ReaperDisabled \/ ReaperInterval > 0) =>
        /\ reaper \in {"unstarted", "disabled", "startup", "loop"}
        /\ resp # Panic

(* The goroutine is in its loop, or it has returned because the cleanup is  *)
(* switched off while the interval configured is not positive               *)
ReaperStartDoesNotCrashWitness ==
    \/ reaper = "loop"
    \/ reaper = "disabled" /\ NotificationSettings.CleanupInterval <= 0

-----------------------------------------------------------------------------
(* The unread_count a general listing of all types by the caller of r       *)
(* reports in the present state                                             *)
ListedUnread(r) ==
    CountDocuments(Unread(GetNotificationsFilter(now, r.is_admin, r.user_id,
                                                 "", "")))

(* The unread records the calls of the caller of r reach that are no longer *)
(* active                                                                   *)
UnreadInactive(r) ==
    {d \in store : InCallerScope(d, r) /\ ~d.is_read /\ d.expires_at <= now}

(* C39: only the listings apply the active predicate.  MarkRead and Delete, *)
(* when the store answers, act on the record of the given id whatever its   *)
(* expires_at: a stored record is marked or removed and the answer is ok, a *)
(* missing one gives NotFound.  The updated_count of MarkAllRead is the     *)
(* unread_count a listing by the same caller reports in the state before,   *)
(* plus the number of unread records in scope that are no longer active.    *)
C39_ActivePredicateInListingsOnly ==
    [][/\ (Idle /\ IsMarkRead'
             /\ resp'.status \notin {StatusBadRequest, StatusInternalServerError}) =>
             LET target == WithId(store, resp'.id)
             IN IF target # {}
                THEN /\ resp'.status = StatusOK
                     /\ store' = (store \ target)
                                    \cup {[d EXCEPT !.is_read = TRUE] : d \in target}
                ELSE /\ resp'.status = StatusNotFound
                     /\ store' = store
       /\ (Idle /\ IsDelete'
             /\ resp'.status \notin {StatusBadRequest, StatusInternalServerError}) =>
             LET target == WithId(store, resp'.id)
             IN IF target # {}
                THEN /\ resp'.status = StatusOK
                     /\ store' = store \ target
                ELSE /\ resp'.status = StatusNotFound
                     /\ store' = store
       /\ (Idle /\ IsMarkAll' /\ resp'.status = StatusOK) =>
             resp'.updated_count =
                 ListedUnread(resp') + Cardinality(UnreadInactive(resp'))]_vars

(* MarkAllRead of user 1 has updated two records while one record of user 1 *)
(* only is active: the listing before it reported one unread record at most *)
C39_Witness ==
    /\ IsMarkAll /\ resp.status = StatusOK
    /\ ~resp.is_admin /\ resp.user_id = "1"
    /\ resp.updated_count = 2
    /\ Cardinality({d \in store : d.user_id = 1 /\ d.expires_at > now}) = 1

(* MarkRead has marked a record that had expired *)
C39_WitnessMarkRead ==
    /\ IsMarkRead /\ resp.status = StatusOK /\ resp.modified = 1
    /\ \A d \in WithId(store, resp.id) : d.expires_at < now

(* Delete has removed record 1 of the collection found at the start, which  *)
(* had expired before the start                                             *)
C39_WitnessDelete ==
    /\ IsDelete /\ resp.status = StatusOK /\ resp.id = Hex(1)
    /\ nextId = 3

====
